---- MODULE Spec2Model ----
(***************************************************************************)
(* A model of utf42 (src/utf42.h), the single-header library that turns    *)
(* one string literal into a poly_enc aggregate holding one view per       *)
(* character type, and of the example and test programs that use it        *)
(* (src/main.cpp, src/test.cpp).                                           *)
(*                                                                         *)
(* A literal is a sequence of Unicode code points (ASCII text and \u / \U  *)
(* escapes).  The compiler encodes it once per literal prefix into static  *)
(* storage; a view is a pointer into that storage plus a length.           *)
(*                                                                         *)
(* Language semantics taken as given:                                      *)
(*  - the ordinary (narrow) literal encoding is UTF-8, as src/test.cpp     *)
(*    assumes when it compares the narrow view with UTF-8 strings;         *)
(*  - wchar_t is 16 bits (UTF-16) or 32 bits (UTF-32): wcharBits;          *)
(*  - whether identical literals written at different places share one    *)
(*    object is unspecified: merge;                                        *)
(*  - static_assert(false) in a template is an error only when the         *)
(*    template is instantiated (CWG 2518).                                 *)
(***************************************************************************)
EXTENDS Integers, Sequences, FiniteSets, TLC

\* Longest literal, in code points, that the literal-level runs enumerate.
MaxLitLen == 2

\* Most poly_enc objects alive in the object-level runs.
MaxObjects == 2

VARIABLES
    std,        \* language level of the build: 11, 14, 17 or 20 (__cplusplus)
    wcharBits,  \* width of wchar_t on the platform: 16 or 32
    merge,      \* TRUE when the build pools identical string literals
    lit,        \* the string literal written in the program, as code points
    objs,       \* the poly_enc objects alive, in order of creation
    ctorArgs,   \* per object, as a record of its construction: the views
                \* its constructor was given, the object it was copied
                \* from (0 when it was not copied), its value when built
    res,        \* outcome of the last access (make_poly_enc, visit, ...)
    conv,       \* UTF-8 string the last view was converted to, or NoString
    str_a,      \* the narrow baseline string of the test, or NoString
    mem,        \* the character arrays p and q of a program that uses the
                \* fallback basic_string_view on its own
    vres        \* outcome of the last operation of such a program

vars == <<std, wcharBits, merge, lit, objs, ctorArgs, res, conv, str_a,
          mem, vres>>

\* What a program of poly_enc objects leaves alone.
viewVars == <<mem, vres>>

-----------------------------------------------------------------------------
(* Character types.                                                          *)

\* The five character types the library supports (utf42.h is_char).
CharTypes == {"char", "wchar_t", "char8_t", "char16_t", "char32_t"}

\* Type names a caller can write: the character types, aliases of them
\* (main.cpp char42_t = char32_t) and a type that is not supported.
TypeNames == CharTypes \cup {"char42_t", "unsigned char"}

\* The type an alias names (using X = Y); any other name denotes itself.
Resolve(T) ==
    IF T = "char42_t" THEN "char32_t" ELSE T

\* Comparison of the names as written, aliases not looked through.
is_same_name(T, U) == T = U

\* std::is_same_v<T, U>: type identity after alias resolution.
is_same(T, U) == Resolve(T) = Resolve(U)

\* char8_t is a type only from C++20 on; every other name exists everywhere.
TypeExists(level, T) == Resolve(T) = "char8_t" => level >= 20

-----------------------------------------------------------------------------
(* Literals and their encodings in static storage.                           *)

\* Code points a literal is built from: NUL, 'A', U+00E9, U+20AC and
\* U+1F600 (one, two, three and four UTF-8 bytes; the last needs a
\* UTF-16 surrogate pair).
CodePoints == {0, 65, 233, 8364, 128512}

\* "Hello World \U0001F600!", the literal of the example and test programs.
HelloWorld ==
    <<72, 101, 108, 108, 111, 32, 87, 111, 114, 108, 100, 32, 128512, 33>>

\* The empty literal "".
EmptyLit == <<>>

RECURSIVE SeqsUpTo(_, _)
SeqsUpTo(S, n) ==
    IF n = 0 THEN {<<>>}
    ELSE LET shorter == SeqsUpTo(S, n - 1)
         IN  shorter \cup {Append(s, x) : s \in shorter, x \in S}

Literals == SeqsUpTo(CodePoints, MaxLitLen) \cup {HelloWorld}

\* UTF-8 code units of one code point, as the compiler writes them for the
\* u8 prefix and for the unprefixed literal.
Utf8Units(cp) ==
    IF cp < 128 THEN <<cp>>
    ELSE IF cp < 2048 THEN <<192 + (cp \div 64), 128 + (cp % 64)>>
    ELSE IF cp < 65536 THEN
        <<224 + (cp \div 4096), 128 + ((cp \div 64) % 64), 128 + (cp % 64)>>
    ELSE <<240 + (cp \div 262144), 128 + ((cp \div 4096) % 64),
           128 + ((cp \div 64) % 64), 128 + (cp % 64)>>

\* UCS-2: one 16-bit unit per code point, the high bits dropped.
Utf16UnitsUcs2(cp) == <<cp % 65536>>

\* UTF-16 code units of one code point (u prefix): a surrogate pair above
\* U+FFFF.
Utf16Units(cp) ==
    IF cp < 65536 THEN <<cp>>
    ELSE <<55296 + ((cp - 65536) \div 1024), 56320 + ((cp - 65536) % 1024)>>

\* UTF-32 code unit of one code point (U prefix).
Utf32Units(cp) == <<cp>>

\* Code units of one code point in the literal whose element type is enc.
UnitsOf(enc, cp) ==
    CASE enc = "char"     -> Utf8Units(cp)
      [] enc = "char8_t"  -> Utf8Units(cp)
      [] enc = "char16_t" -> Utf16Units(cp)
      [] enc = "char32_t" -> Utf32Units(cp)
      [] enc = "wchar_t"  ->
            IF wcharBits = 16 THEN Utf16Units(cp) ELSE Utf32Units(cp)

RECURSIVE Encode(_, _)
Encode(enc, l) ==
    IF l = <<>> THEN <<>>
    ELSE UnitsOf(enc, Head(l)) \o Encode(enc, Tail(l))

\* The array a prefixed literal denotes: its code units and the terminator.
LiteralArray(enc, l) == Encode(enc, l) \o <<0>>

\* The literals a program writes: its literal `lit`, and "".
Sources == {"lit", "empty"}

LiteralText(src) == IF src = "lit" THEN lit ELSE EmptyLit

\* The object a literal of element type enc denotes when literal src is
\* written at place `site` of the program.  A build that pools literals
\* gives identical literals one object (site 0) wherever they are written.
LiteralObject(enc, src, site) ==
    [src  |-> IF merge /\ LiteralText(src) = EmptyLit THEN "empty" ELSE src,
     enc  |-> enc,
     site |-> IF merge THEN 0 ELSE site]

\* The code units stored at an address, terminator included.
Storage(addr) == LiteralArray(addr.enc, LiteralText(addr.src))

-----------------------------------------------------------------------------
(* Views.                                                                    *)

\* The null pointer: data() of a default-constructed std::basic_string_view.
Null == [src |-> "empty", enc |-> "none", site |-> 0 - 1]

\* std::basic_string_view<char_t>(): no data, length 0.
DefaultView == [data |-> Null, len |-> 0]

\* Number of units before the first null unit of a terminated array,
\* counting from index n (0-based) as the loop of str_len does.
RECURSIVE str_len_from(_, _)
str_len_from(arr, n) ==
    IF arr[n + 1] # 0 THEN str_len_from(arr, n + 1) ELSE n

\* A length taken from the size of the array, N - 1, whatever it holds.
str_len_array(arr) == Len(arr) - 1

\* utf42::basic_string_view::str_len (C++14), which is also what
\* std::char_traits::length computes for std::basic_string_view (C++17/20).
str_len(arr) == str_len_from(arr, 0)

\* A view whose length is the literal's number of characters, whatever the
\* encoding: one length shared by all variants.
ViewOfLiteralSharedLength(level, addr) ==
    [data |-> addr, len |-> Len(LiteralText(addr.src))]

\* The view a literal converts to when it is passed where a view is
\* expected.  C++17/20: std::basic_string_view(const char_t*), length up to
\* the first null.  C++14: basic_string_view(const char_t*), str_len.
\* C++11: basic_string_view(const char_t (&)[N]), length N - 1.
ViewOfLiteral(level, addr) ==
    [data |-> addr,
     len  |-> IF level = 11 THEN Len(Storage(addr)) - 1
              ELSE str_len(Storage(addr))]

\* The code units a view refers to.
Contents(v) ==
    IF v.data = Null THEN <<>> ELSE SubSeq(Storage(v.data), 1, v.len)

-----------------------------------------------------------------------------
(* poly_enc.                                                                 *)

\* The field declared for each character type.
FieldOf(T) ==
    CASE T = "char"     -> "TXT_CHAR"
      [] T = "wchar_t"  -> "TXT_CHAR_W"
      [] T = "char8_t"  -> "TXT_CHAR_8"
      [] T = "char16_t" -> "TXT_CHAR_16"
      [] T = "char32_t" -> "TXT_CHAR_32"

\* Element type of each field of poly_enc.
FieldType(f) ==
    CASE f = "TXT_CHAR"    -> "char"
      [] f = "TXT_CHAR_W"  -> "wchar_t"
      [] f = "TXT_CHAR_8"  -> "char8_t"
      [] f = "TXT_CHAR_16" -> "char16_t"
      [] f = "TXT_CHAR_32" -> "char32_t"

\* The constructor's parameters, in order, named by the element type of
\* the view each takes: five at C++20, four below (no char8_t).
CtorParams(level) ==
    IF level >= 20
    THEN <<"char", "wchar_t", "char8_t", "char16_t", "char32_t">>
    ELSE <<"char", "wchar_t", "char16_t", "char32_t">>

\* The fields of poly_enc at a language level.
Fields(level) ==
    IF level >= 20
    THEN {"TXT_CHAR", "TXT_CHAR_W", "TXT_CHAR_8", "TXT_CHAR_16", "TXT_CHAR_32"}
    ELSE {"TXT_CHAR", "TXT_CHAR_W", "TXT_CHAR_16", "TXT_CHAR_32"}

\* poly_enc::poly_enc: each field is initialised from its own parameter.
poly_enc_ctor(level, args) ==
    IF level >= 20
    THEN [TXT_CHAR    |-> args[1],
          TXT_CHAR_W  |-> args[2],
          TXT_CHAR_8  |-> args[3],
          TXT_CHAR_16 |-> args[4],
          TXT_CHAR_32 |-> args[5]]
    ELSE [TXT_CHAR    |-> args[1],
          TXT_CHAR_W  |-> args[2],
          TXT_CHAR_16 |-> args[3],
          TXT_CHAR_32 |-> args[4]]

\* A copy that duplicates the characters into storage of its own.
poly_enc_copy_deep(o) ==
    [f \in DOMAIN o |->
        [data |-> [o[f].data EXCEPT !.site = o[f].data.site + 100],
         len  |-> o[f].len]]

\* The implicit copy constructor: member-wise copy of the views.
poly_enc_copy(o) == o

\* An object left with default views, as by a call that consumes it.
cleared_self(self) == [f \in DOMAIN self |-> DefaultView]

\* visit() const and visit_poly_enc(const poly_enc&): the object after the
\* call is the object before it.
const_self(self) == self

\* One list of literals at every level, the u8 literal always among them.
MacroLiteralsAllLevels(level) ==
    <<"char", "wchar_t", "char8_t", "char16_t", "char32_t">>

\* The literal prefixes the macros paste, in the order they pass them,
\* named by the element type of the literal each denotes.
MacroLiterals(level) ==
    IF level >= 20
    THEN <<"char", "wchar_t", "char8_t", "char16_t", "char32_t">>
    ELSE <<"char", "wchar_t", "char16_t", "char32_t">>

\* cons_poly_enc(lit) written at place `site`: utf42::poly_enc{lit, L##lit,
\* ...}, each literal converted to a view.
cons_poly_enc(level, l, site) ==
    poly_enc_ctor(level,
        [k \in DOMAIN MacroLiterals(level) |->
            ViewOfLiteral(level,
                LiteralObject(MacroLiterals(level)[k], l, site))])

-----------------------------------------------------------------------------
(* Selection.                                                                *)

\* A trait that accepts every type.
is_char_any(T) == TRUE

\* A trait that accepts every character-sized integral type.
is_char_integral(T) ==
    Resolve(T) \in CharTypes \cup {"signed char", "unsigned char"}

\* is_char<T> / CharType<T> (C++20).
is_char(T) ==
    \/ is_same(T, "char")
    \/ is_same(T, "wchar_t")
    \/ is_same(T, "char8_t")
    \/ is_same(T, "char16_t")
    \/ is_same(T, "char32_t")

\* A call that returns: the branch of the selection taken and the view.
Ret(branch, v) == [kind |-> "view", branch |-> branch, view |-> v]

\* A call the compiler rejects: no program, no view.
IllFormed(why) == [kind |-> "ill-formed", branch |-> why, view |-> DefaultView]

\* poly_enc::visit<char_t>() at C++20: constrained by CharType, then the
\* if constexpr chain.
visit20(self, T) ==
    IF ~is_char(T) THEN IllFormed("constraint")
    ELSE IF is_same(T, "char") THEN Ret("TXT_CHAR", self.TXT_CHAR)
    ELSE IF is_same(T, "wchar_t") THEN Ret("TXT_CHAR_W", self.TXT_CHAR_W)
    ELSE IF is_same(T, "char8_t") THEN Ret("TXT_CHAR_8", self.TXT_CHAR_8)
    ELSE IF is_same(T, "char16_t") THEN Ret("TXT_CHAR_16", self.TXT_CHAR_16)
    ELSE IF is_same(T, "char32_t") THEN Ret("TXT_CHAR_32", self.TXT_CHAR_32)
    ELSE Ret("else", DefaultView)

\* poly_enc::visit<char_t>() at C++17: the if constexpr chain, and the
\* static_assert of the body, which rejects every other type.
visit17(self, T) ==
    LET chain ==
            IF is_same(T, "char") THEN Ret("TXT_CHAR", self.TXT_CHAR)
            ELSE IF is_same(T, "wchar_t") THEN Ret("TXT_CHAR_W", self.TXT_CHAR_W)
            ELSE IF is_same(T, "char16_t") THEN Ret("TXT_CHAR_16", self.TXT_CHAR_16)
            ELSE IF is_same(T, "char32_t") THEN Ret("TXT_CHAR_32", self.TXT_CHAR_32)
            ELSE Ret("else", DefaultView)
        asserted ==
            \/ is_same(T, "char")
            \/ is_same(T, "wchar_t")
            \/ is_same(T, "char16_t")
            \/ is_same(T, "char32_t")
    IN  IF asserted THEN chain ELSE IllFormed("static_assert")

\* poly_enc::visit<char_t>() at C++11/14: one explicit specialization per
\* supported type; the primary template is static_assert(false).
visit11(self, T) ==
    CASE is_same(T, "char")     -> Ret("TXT_CHAR", self.TXT_CHAR)
      [] is_same(T, "wchar_t")  -> Ret("TXT_CHAR_W", self.TXT_CHAR_W)
      [] is_same(T, "char16_t") -> Ret("TXT_CHAR_16", self.TXT_CHAR_16)
      [] is_same(T, "char32_t") -> Ret("TXT_CHAR_32", self.TXT_CHAR_32)
      [] OTHER                  -> IllFormed("static_assert")

\* A visit that takes the length of every view from the narrow variant.
visit_narrow_length(level, self, T) ==
    LET r == IF level >= 20 THEN visit20(self, T)
             ELSE IF level = 17 THEN visit17(self, T)
             ELSE visit11(self, T)
    IN  IF ~TypeExists(level, T) THEN IllFormed("undeclared")
        ELSE IF r.kind = "view"
        THEN Ret(r.branch, [data |-> r.view.data, len |-> self.TXT_CHAR.len])
        ELSE r

\* A visit that checks the selected view and throws when it is empty.
visit_checked(level, self, T) ==
    LET r == IF level >= 20 THEN visit20(self, T)
             ELSE IF level = 17 THEN visit17(self, T)
             ELSE visit11(self, T)
    IN  IF ~TypeExists(level, T) THEN IllFormed("undeclared")
        ELSE IF r.kind = "view" /\ r.view.len = 0
        THEN [kind |-> "throw", branch |-> r.branch, view |-> DefaultView]
        ELSE r

\* poly_enc::visit<char_t>() of the build's language level.  A type name
\* the level does not have cannot be written at all.
visit(level, self, T) ==
    IF ~TypeExists(level, T) THEN IllFormed("undeclared")
    ELSE IF level >= 20 THEN visit20(self, T)
    ELSE IF level = 17 THEN visit17(self, T)
    ELSE visit11(self, T)

\* A visit_poly_enc that returns an empty view instead of forwarding.
visit_poly_enc_empty(level, oPolyEnv, T) ==
    IF ~TypeExists(level, T) THEN IllFormed("undeclared")
    ELSE Ret("else", DefaultView)

\* utf42::visit_poly_enc<char_t>(oPolyEnv): constrained by CharType at
\* C++20, unconstrained below; returns oPolyEnv.visit<char_t>().
visit_poly_enc(level, oPolyEnv, T) ==
    IF ~TypeExists(level, T) THEN IllFormed("undeclared")
    ELSE IF level >= 20 /\ ~is_char(T) THEN IllFormed("constraint")
    ELSE visit(level, oPolyEnv, T)

\* make_poly_enc(char_t, lit) written at place `site`.
make_poly_enc(level, T, l, site) ==
    visit_poly_enc(level, cons_poly_enc(level, l, site), T)

-----------------------------------------------------------------------------
(* Conversion to UTF-8, as the example and test programs do it.              *)

\* A conversion that returns the string `bytes`.
Converted(bytes) == [ok |-> TRUE, bytes |-> bytes]

\* A conversion that throws (utf8::invalid_utf16, utf8::invalid_code_point).
Thrown == [ok |-> FALSE, bytes |-> <<>>]

\* No conversion made yet.
NoString == [ok |-> FALSE, bytes |-> <<0>>]

\* x >> n and x & 0x3f on unsigned values.
Shr(x, n) == x \div (2 ^ n)
Low6(x) == x % 64

\* char8_to_char: a string of sText.length() chars, each the byte of the
\* char8_t at the same index.
char8_to_char(units) == Converted([i \in 1 .. Len(units) |-> units[i] % 256])

\* std::string(strv): the chars of the narrow view.
string_of(units) == Converted([i \in 1 .. Len(units) |-> units[i]])

\* utf8::append(cp, out): the UTF-8 bytes of a code point; throws on a
\* surrogate or a value above U+10FFFF.
utf8_append(cp) ==
    IF cp > 1114111 \/ (cp >= 55296 /\ cp <= 57343) THEN Thrown
    ELSE IF cp < 128 THEN Converted(<<cp>>)
    ELSE IF cp < 2048 THEN
        Converted(<<Shr(cp, 6) + 192, Low6(cp) + 128>>)
    ELSE IF cp < 65536 THEN
        Converted(<<Shr(cp, 12) + 224, Low6(Shr(cp, 6)) + 128, Low6(cp) + 128>>)
    ELSE
        Converted(<<Shr(cp, 18) + 240, Low6(Shr(cp, 12)) + 128,
                    Low6(Shr(cp, 6)) + 128, Low6(cp) + 128>>)

\* Appending to the output so far; an exception ends the conversion.
Then(first, rest) ==
    IF first.ok /\ rest.ok THEN Converted(first.bytes \o rest.bytes) ELSE Thrown

\* utf8::utf32to8, from unit i on: every unit is appended as a code point.
RECURSIVE utf32to8_from(_, _)
utf32to8_from(units, i) ==
    IF i > Len(units) THEN Converted(<<>>)
    ELSE Then(utf8_append(units[i]), utf32to8_from(units, i + 1))

utf32to8(units) == utf32to8_from(units, 1)

\* utf8::utf16to8, from unit i on: each unit is masked to 16 bits; a lead
\* surrogate takes the next unit as its trail, (lead << 10) + trail +
\* SURROGATE_OFFSET; a lead without a trail and a lone trail throw.
RECURSIVE utf16to8_from(_, _)
utf16to8_from(units, i) ==
    IF i > Len(units) THEN Converted(<<>>)
    ELSE LET cp == units[i] % 65536
         IN  IF cp >= 55296 /\ cp <= 56319 THEN
                 IF i + 1 > Len(units) THEN Thrown
                 ELSE LET trail == units[i + 1] % 65536
                      IN  IF trail >= 56320 /\ trail <= 57343
                          THEN Then(utf8_append((cp * 1024) + trail
                                        + (65536 - (55296 * 1024) - 56320)),
                                    utf16to8_from(units, i + 2))
                          ELSE Thrown
             ELSE IF cp >= 56320 /\ cp <= 57343 THEN Thrown
             ELSE Then(utf8_append(cp), utf16to8_from(units, i + 1))

utf16to8(units) == utf16to8_from(units, 1)

\* The conversion the programs apply to a view of element type T: the
\* narrow view is copied, char8_t goes through char8_to_char, char16_t
\* through utf16to8, char32_t through utf32to8.  The wide view takes the
\* conversion of its width.  The programs convert no other view.
ToUtf8(T, units) ==
    CASE T = "char"     -> string_of(units)
      [] T = "char8_t"  -> char8_to_char(units)
      [] T = "char16_t" -> utf16to8(units)
      [] T = "char32_t" -> utf32to8(units)
      [] T = "wchar_t"  ->
            IF wcharBits = 16 THEN utf16to8(units) ELSE utf32to8(units)
      [] OTHER          -> NoString

-----------------------------------------------------------------------------
(* The character traits (C++20).                                             *)

\* Type names a trait can be asked about: those of the selection and
\* integral types that are not character types of the library.
QueryTypes == TypeNames \cup {"signed char", "int", "bool"}

\* is_char_v<T> = is_char<T>::value
is_char_v(T) == is_char(T)

\* concept CharType = is_char_v<T>
CharType(T) == is_char_v(T)

-----------------------------------------------------------------------------
(* utf42::basic_string_view, the fallback view of C++11 and C++14.           *)

\* Longest character array, terminator not counted, that the programs of
\* the fallback view are run on.
MaxStrLen == 2

\* Code units of those arrays: the null character and a letter.
Units == {0, 65}

\* Null-terminated arrays: any units, nulls inside included, and the
\* terminator the compiler appends.
Arrays == {Append(s, 0) : s \in SeqsUpTo(Units, MaxStrLen)}

\* No array in use.
NoArrays == [p |-> <<0>>, q |-> <<0>>]

\* Names of the arrays a pointer points to (a pointer points to the first
\* element): the program's arrays p and q, the narrow literal "" of the
\* default constructor, the buffer of the string str() returned.
ArrayNames == {"p", "q"}
NarrowEmpty == "narrow \"\""
StringBuffer == "s"

\* No view: the value of a view that was not built.
NoView == [data |-> "none", len |-> 0]

\* No operation done yet, or its outcome gone out of scope.
NoOutcome ==
    [op |-> "none", kind |-> "none", T |-> "char", ctor |-> "none",
     pStr |-> "none",
     a |-> NoView, b |-> NoView, pos |-> 0, view |-> NoView,
     sub |-> [thrown |-> FALSE, unit |-> 0],
     at |-> [thrown |-> FALSE, unit |-> 0],
     eq |-> FALSE, ne |-> FALSE, reads |-> {},
     length |-> 0, empty |-> FALSE, bool |-> FALSE, str |-> <<>>,
     value |-> FALSE, v |-> FALSE, concept |-> FALSE]

\* The array a pointer points into.  A std::basic_string keeps a null
\* character after its last character.
Mem(pData) ==
    CASE pData = "p"          -> mem.p
      [] pData = "q"          -> mem.q
      [] pData = NarrowEmpty  -> <<0>>
      [] pData = StringBuffer -> Append(vres.str, 0)

\* m_pData[i]: the unit at index i.  Past the end of the array the read
\* has no defined value; no operation of the view gets there as long as
\* the view lies inside its array.
Unit(pData, i) ==
    IF i < Len(Mem(pData)) THEN Mem(pData)[i + 1] ELSE 0 - 1

\* A constructor call that compiles, and one that does not.
Built(v) == [kind |-> "done", view |-> v]
NotBuilt == [kind |-> "ill-formed", view |-> NoView]

\* basic_string_view() : m_pData(""), m_nSize(0).  The initialiser is a
\* narrow literal: it converts to const char_t* only when char_t is char.
basic_string_view_default(char_t) ==
    IF is_same(char_t, "char")
    THEN Built([data |-> NarrowEmpty, len |-> 0])
    ELSE NotBuilt

\* C++14: basic_string_view(const char_t *pStr), length by str_len.
basic_string_view_cstr(pStr) ==
    [data |-> pStr, len |-> str_len(Mem(pStr))]

\* C++14: basic_string_view(const char_t *pStr, size_type nLength).
basic_string_view_ptr_len(pStr, nLength) ==
    [data |-> pStr, len |-> nLength]

\* C++11: basic_string_view(const char_t (&pStr)[N]), length N - 1.
basic_string_view_array(pStr) ==
    [data |-> pStr, len |-> Len(Mem(pStr)) - 1]

\* length()
length(self) == self.len

\* A returned element, and the exception std::out_of_range.
Element(u) == [thrown |-> FALSE, unit |-> u]
OutOfRange == [thrown |-> TRUE, unit |-> 0]

\* operator[](pos)
operator_index(self, pos) ==
    IF pos >= self.len THEN OutOfRange ELSE Element(Unit(self.data, pos))

\* at(pos) with the bound test off by one.
at_past_end(self, pos) ==
    IF pos > self.len THEN OutOfRange ELSE Element(Unit(self.data, pos))

\* at(pos)
at(self, pos) ==
    IF pos >= self.len THEN OutOfRange ELSE Element(Unit(self.data, pos))

\* data()
data(self) == self.data

\* Conversion to bool that tests the pointer, as for a raw pointer.
operator_bool_pointer(self) == self.data # "none"

\* explicit operator bool()
operator_bool(self) == self.len > 0

\* empty()
empty(self) == self.len = 0

\* The loop of operator==, from index i on; `reads` are the indices read
\* so far.
RECURSIVE operator_eq_from(_, _, _, _)
operator_eq_from(self, other, i, reads) ==
    IF i < self.len
    THEN IF Unit(self.data, i) # Unit(other.data, i)
         THEN [value |-> FALSE, reads |-> reads \cup {i}]
         ELSE operator_eq_from(self, other, i + 1, reads \cup {i})
    ELSE [value |-> TRUE, reads |-> reads]

\* Equality of the views as pairs of pointer and length.
operator_eq_identity(self, other) ==
    [value |-> self.len = other.len /\ self.data = other.data,
     reads |-> {}]

\* operator==(other): the result and the indices it read.
operator_eq(self, other) ==
    IF self.len # other.len
    THEN [value |-> FALSE, reads |-> {}]
    ELSE operator_eq_from(self, other, 0, {})

\* operator!=(other)
operator_ne(self, other) == ~ operator_eq(self, other).value

\* A string built from the pointer alone, up to the first null character.
str_to_terminator(self) ==
    [i \in 1 .. str_len(Mem(self.data)) |-> Unit(self.data, i - 1)]

\* str(): std::basic_string<char_t>(m_pData, m_nSize)
str(self) ==
    [i \in 1 .. self.len |-> Unit(self.data, i - 1)]

\* The views a program can build at a language level over the arrays it
\* has: by the array constructor (C++11), by the pointer constructors
\* with a length that stays inside the array (C++14), by default.
ViewsOf(level) ==
    {basic_string_view_default("char").view}
    \cup (IF level = 11
          THEN {basic_string_view_array(pStr) : pStr \in ArrayNames}
          ELSE {basic_string_view_cstr(pStr) : pStr \in ArrayNames}
               \cup UNION {{basic_string_view_ptr_len(pStr, n) :
                               n \in 0 .. Len(Mem(pStr))} :
                           pStr \in ArrayNames})

-----------------------------------------------------------------------------
(* The state machine.                                                        *)

Levels == {11, 14, 17, 20}

\* The place of the program where make_poly_enc is written; object k is
\* built at place k.
MakeSite == MaxObjects + 1

NoResult ==
    [op |-> "none", T |-> "char", obj |-> 0, src |-> "none",
     kind |-> "none", branch |-> "none", view |-> DefaultView]

\* The outcome r of access `op` with type argument T on object i (0 for a
\* temporary built from literal src).
Outcome(op, T, i, src, r) ==
    [op |-> op, T |-> T, obj |-> i, src |-> src,
     kind |-> r.kind, branch |-> r.branch, view |-> r.view]

Platform ==
    /\ std \in Levels
    /\ wcharBits \in {16, 32}
    /\ merge \in BOOLEAN
    /\ objs = <<>>
    /\ ctorArgs = <<>>
    /\ res = NoResult
    /\ conv = NoString
    /\ str_a = NoString
    /\ mem = NoArrays
    /\ vres = NoOutcome

\* Object level: the program of the examples, with its literal.
Init == Platform /\ lit = HelloWorld

\* Literal level: any literal.
InitLit == Platform /\ lit \in Literals

\* The argument views of cons_poly_enc(l) written at `site`.
MacroArgs(l, site) ==
    [k \in DOMAIN MacroLiterals(std) |->
        ViewOfLiteral(std, LiteralObject(MacroLiterals(std)[k], l, site))]

\* A new object enters the program, built from `args` (copied from object
\* `from` when from > 0).
NewObject(o, args, from) ==
    /\ objs' = Append(objs, o)
    /\ ctorArgs' = Append(ctorArgs,
                          [args |-> args, copyOf |-> from, built |-> o])
    /\ res' = [NoResult EXCEPT !.op = "construct", !.obj = Len(objs) + 1,
                               !.kind = "object"]
    /\ conv' = NoString
    /\ UNCHANGED <<std, wcharBits, merge, lit, str_a, viewVars>>

\* constexpr utf42::poly_enc o = cons_poly_enc(l);
ConsPolyEnc(l) ==
    /\ Len(objs) < MaxObjects
    /\ NewObject(cons_poly_enc(std, l, Len(objs) + 1),
                 MacroArgs(l, Len(objs) + 1), 0)

\* utf42::poly_enc o{...}: the constructor called with views: the view of
\* field f of object i for f's parameter, views of the literal l for the
\* other parameters.
Construct(i, f, l) ==
    /\ Len(objs) < MaxObjects
    /\ i \in DOMAIN objs
    /\ f \in Fields(std)
    /\ LET fresh == MacroArgs(l, Len(objs) + 1)
           args == [k \in DOMAIN CtorParams(std) |->
                       IF CtorParams(std)[k] = FieldType(f)
                       THEN objs[i][f] ELSE fresh[k]]
       IN  NewObject(poly_enc_ctor(std, args), args, 0)

\* utf42::poly_enc o2 = o1;
Copy(i) ==
    /\ Len(objs) < MaxObjects
    /\ i \in DOMAIN objs
    /\ NewObject(poly_enc_copy(objs[i]), ctorArgs[i].args, i)

\* An access to object i (0: a temporary): its outcome is recorded and the
\* object is what the const call leaves.  The program looks at one outcome
\* at a time: the previous one has been discarded.
Access(i, r) ==
    /\ res.kind \in {"none", "object"}
    /\ res' = r
    /\ conv' = NoString
    /\ objs' = [k \in DOMAIN objs |->
                  IF k = i THEN const_self(objs[k]) ELSE objs[k]]
    /\ UNCHANGED <<std, wcharBits, merge, lit, ctorArgs, str_a, viewVars>>

\* objs[i].visit<T>()
Visit(i, T) ==
    /\ i \in DOMAIN objs
    /\ Access(i, Outcome("visit", T, i, "none", visit(std, objs[i], T)))

\* utf42::visit_poly_enc<T>(objs[i])
VisitPolyEnc(i, T) ==
    /\ i \in DOMAIN objs
    /\ Access(i, Outcome("visit_poly_enc", T, i, "none",
                      visit_poly_enc(std, objs[i], T)))

\* objs[i].f, the public field read directly.
ReadField(i, f) ==
    /\ i \in DOMAIN objs
    /\ f \in Fields(std)
    /\ Access(i, Outcome("field", FieldType(f), i, "none", Ret(f, objs[i][f])))

\* make_poly_enc(T, l)
MakePolyEnc(T, l) ==
    Access(0, Outcome("make_poly_enc", T, 0, l,
                      make_poly_enc(std, T, l, MakeSite)))

\* The view last obtained is converted to UTF-8.
Convert ==
    /\ res.kind = "view"
    /\ conv = NoString
    /\ conv' = ToUtf8(Resolve(res.T), Contents(res.view))
    /\ UNCHANGED <<std, wcharBits, merge, lit, objs, ctorArgs, res, str_a,
                   viewVars>>

\* const std::string str_a(strv_a): the narrow view obtained from
\* make_poly_enc(char, lit) becomes the baseline of the comparisons.
Baseline ==
    /\ res.op = "make_poly_enc"
    /\ res.kind = "view"
    /\ Resolve(res.T) = "char"
    /\ str_a = NoString
    /\ str_a' = string_of(Contents(res.view))
    /\ UNCHANGED <<std, wcharBits, merge, lit, objs, ctorArgs, res, conv,
                   viewVars>>

\* The outcome of the last access goes out of scope.
Discard ==
    /\ res.kind \notin {"none", "object"}
    /\ res' = NoResult
    /\ conv' = NoString
    /\ UNCHANGED <<std, wcharBits, merge, lit, objs, ctorArgs, str_a,
                   viewVars>>

Next ==
    \/ \E l \in Sources : ConsPolyEnc(l)
    \/ \E i \in 1 .. MaxObjects, f \in Fields(20), l \in Sources :
          Construct(i, f, l)
    \/ \E i \in 1 .. MaxObjects : Copy(i)
    \/ \E i \in 1 .. MaxObjects, T \in TypeNames : Visit(i, T)
    \/ \E i \in 1 .. MaxObjects, T \in TypeNames : VisitPolyEnc(i, T)
    \/ \E i \in 1 .. MaxObjects, f \in Fields(20) : ReadField(i, f)
    \/ \E T \in TypeNames, l \in Sources : MakePolyEnc(T, l)
    \/ Discard

Spec == Init /\ [][Next]_vars

\* constexpr utf42::poly_enc oText = cons_poly_enc(lit);  (example2)
ExampleCons ==
    /\ objs = <<>>
    /\ NewObject(cons_poly_enc(std, "lit", 1), MacroArgs("lit", 1), 0)

NextLit ==
    \/ ExampleCons
    \/ \E T \in TypeNames : Visit(1, T)
    \/ \E T \in TypeNames : VisitPolyEnc(1, T)
    \/ \E f \in Fields(20) : ReadField(1, f)
    \/ \E T \in TypeNames : MakePolyEnc(T, "lit")
    \/ Convert
    \/ Baseline
    \/ Discard

SpecLit == InitLit /\ [][NextLit]_vars

-----------------------------------------------------------------------------
(* Programs that use the traits and the fallback view on their own.          *)

\* The fallback view is the view type of C++11 and C++14.
Fallback(level) == level \in {11, 14}

\* Such a program holds no poly_enc object.  The width of wchar_t and the
\* pooling of literals play no part in it and are those of one platform;
\* the arrays p and q are any two arrays.
InitView ==
    /\ std \in Levels
    /\ wcharBits = 32
    /\ merge = FALSE
    /\ lit = HelloWorld
    /\ objs = <<>>
    /\ ctorArgs = <<>>
    /\ res = NoResult
    /\ conv = NoString
    /\ str_a = NoString
    /\ mem \in IF Fallback(std) THEN [p : Arrays, q : Arrays] ELSE {NoArrays}
    /\ vres = NoOutcome

\* The outcome o of an operation is recorded; the program looks at one
\* outcome at a time.
Record(o) ==
    /\ vres' = o
    /\ UNCHANGED <<std, wcharBits, merge, lit, objs, ctorArgs, res, conv,
                   str_a, mem>>

\* is_char<T>::value, is_char_v<T> and CharType<T> in one program: the
\* three are declared at C++20 only.
QueryTrait(T) ==
    /\ vres.kind = "none"
    /\ Record(IF std >= 20
              THEN [NoOutcome EXCEPT !.op = "trait", !.kind = "done",
                                     !.T = T,
                                     !.value = is_char(T),
                                     !.v = is_char_v(T),
                                     !.concept = CharType(T)]
              ELSE [NoOutcome EXCEPT !.op = "trait", !.kind = "ill-formed",
                                     !.T = T])

\* utf42::basic_string_view<T> v;
DefaultConstruct(T) ==
    /\ vres.kind = "none"
    /\ Fallback(std)
    /\ TypeExists(std, T)
    /\ LET r == basic_string_view_default(T)
       IN  Record([NoOutcome EXCEPT !.op = "default", !.kind = r.kind,
                                    !.T = T, !.view = r.view])

\* utf42::basic_string_view<T> v(pStr), pStr an array: the array
\* constructor at C++11, the pointer constructor at C++14.
ConstructFromArray(pStr) ==
    /\ vres.kind = "none"
    /\ Fallback(std)
    /\ Record([NoOutcome EXCEPT
                 !.op = "construct", !.kind = "done",
                 !.ctor = IF std = 11 THEN "array" ELSE "cstr",
                 !.pStr = pStr,
                 !.view = IF std = 11 THEN basic_string_view_array(pStr)
                          ELSE basic_string_view_cstr(pStr)])

\* utf42::basic_string_view<T> v(pStr, nLength), the view inside the
\* array.  C++11 has no such constructor.
ConstructFromLength(pStr, nLength) ==
    /\ vres.kind = "none"
    /\ Fallback(std)
    /\ nLength <= Len(Mem(pStr))
    /\ Record(IF std = 11
              THEN [NoOutcome EXCEPT !.op = "construct",
                                     !.kind = "ill-formed",
                                     !.ctor = "ptr_len", !.pStr = pStr,
                                     !.pos = nLength]
              ELSE [NoOutcome EXCEPT
                      !.op = "construct", !.kind = "done",
                      !.ctor = "ptr_len", !.pStr = pStr, !.pos = nLength,
                      !.view = basic_string_view_ptr_len(pStr, nLength)])

\* a[pos] and a.at(pos)
Index(a, pos) ==
    /\ vres.kind = "none"
    /\ Fallback(std)
    /\ a \in ViewsOf(std)
    /\ Record([NoOutcome EXCEPT !.op = "index", !.kind = "done",
                                !.a = a, !.pos = pos,
                                !.sub = operator_index(a, pos),
                                !.at = at(a, pos)])

\* a == b and a != b
Compare(a, b) ==
    /\ vres.kind = "none"
    /\ Fallback(std)
    /\ a \in ViewsOf(std)
    /\ b \in ViewsOf(std)
    /\ Record([NoOutcome EXCEPT !.op = "compare", !.kind = "done",
                                !.a = a, !.b = b,
                                !.eq = operator_eq(a, b).value,
                                !.reads = operator_eq(a, b).reads,
                                !.ne = operator_ne(a, b)])

\* a.length(), a.empty(), bool(a)
Observe(a) ==
    /\ vres.kind = "none"
    /\ Fallback(std)
    /\ a \in ViewsOf(std)
    /\ Record([NoOutcome EXCEPT !.op = "observe", !.kind = "done",
                                !.a = a,
                                !.length = length(a),
                                !.empty = empty(a),
                                !.bool = operator_bool(a)])

\* const auto s = a.str();  str() is const: the view after the call is
\* the view before it.
Str(a) ==
    /\ vres.kind = "none"
    /\ Fallback(std)
    /\ a \in ViewsOf(std)
    /\ Record([NoOutcome EXCEPT !.op = "str", !.kind = "done",
                                !.a = a, !.str = str(a), !.view = a])

\* A view over the characters of the string s that str() returned, by
\* constructor `ctor`: v(s.c_str()) or v(s.data(), s.size()), compared
\* with the view s came from.  The only constructor of C++11 that takes
\* characters takes an array, which s is not.
Rebuild(ctor) ==
    /\ vres.op = "str"
    /\ LET v == IF ctor = "cstr"
                THEN basic_string_view_cstr(StringBuffer)
                ELSE basic_string_view_ptr_len(StringBuffer, Len(vres.str))
       IN  Record(IF std = 11
                  THEN [vres EXCEPT !.op = "rebuild", !.kind = "ill-formed",
                                    !.ctor = ctor, !.view = NoView]
                  ELSE [vres EXCEPT !.op = "rebuild", !.ctor = ctor,
                                    !.view = v,
                                    !.eq = operator_eq(v, vres.a).value,
                                    !.reads = operator_eq(v, vres.a).reads,
                                    !.ne = operator_ne(v, vres.a)])

\* The outcome of the last operation goes out of scope.
DiscardOutcome ==
    /\ vres.kind # "none"
    /\ Record(NoOutcome)

\* Indices a program asks for: inside, at and past the end of any view.
Positions == 0 .. MaxStrLen + 2

\* Every view of any level, for the quantifier of Next.
AllViews == ViewsOf(11) \cup ViewsOf(14)

NextView ==
    \/ \E T \in QueryTypes : QueryTrait(T)
    \/ \E T \in CharTypes : DefaultConstruct(T)
    \/ \E pStr \in ArrayNames : ConstructFromArray(pStr)
    \/ \E pStr \in ArrayNames, n \in Positions : ConstructFromLength(pStr, n)
    \/ \E a \in AllViews, pos \in Positions : Index(a, pos)
    \/ \E a \in AllViews, b \in AllViews : Compare(a, b)
    \/ \E a \in AllViews : Observe(a)
    \/ \E a \in AllViews : Str(a)
    \/ \E ctor \in {"cstr", "ptr_len"} : Rebuild(ctor)
    \/ DiscardOutcome

SpecView == InitView /\ [][NextView]_vars

-----------------------------------------------------------------------------
(* Properties of the literal level (SpecLit).                                *)

\* The character types of the build: char8_t only at C++20.
Supported(level) == {T \in CharTypes : TypeExists(level, T)}

\* Two views are the same string: equal length, equal code units.
SameView(a, b) == a.len = b.len /\ Contents(a) = Contents(b)

\* The literal has a character above U+FFFF before any NUL, so that its
\* UTF-16 views hold a surrogate pair.
HasSurrogatePair ==
    \E k \in DOMAIN lit :
        /\ lit[k] > 65535
        /\ \A j \in 1 .. k : lit[j] # 0

\* C1: for every literal, the char8_t, char16_t and char32_t views that
\* make_poly_enc returns, converted to UTF-8 (char8_to_char, utf16to8,
\* utf32to8), are byte for byte the narrow view of the same literal.
C1_VariantsMatchNarrow ==
    ( /\ res.op = "make_poly_enc"
      /\ res.kind = "view"
      /\ Resolve(res.T) \in {"char8_t", "char16_t", "char32_t"}
      /\ conv # NoString
      /\ str_a # NoString )
    => (conv.ok /\ conv = str_a)

\* C1 witness: the UTF-16 view of a literal with a surrogate pair has been
\* converted and equals the baseline.
C1_Witness ==
    /\ res.op = "make_poly_enc"
    /\ res.T = "char16_t"
    /\ HasSurrogatePair
    /\ Len(lit) >= 2
    /\ conv.ok
    /\ conv = str_a

\* C3: for every literal and supported type T the access paths agree:
\* make_poly_enc(T, lit), visit_poly_enc<T>(cons_poly_enc(lit)),
\* cons_poly_enc(lit).visit<T>() and the field declared for T all give the
\* same view (same length, same code units).
C3_AccessPathsAgree ==
    ( /\ Len(objs) >= 1
      /\ res.op \in {"make_poly_enc", "visit_poly_enc", "visit", "field"}
      /\ Resolve(res.T) \in Supported(std) )
    => ( /\ res.kind = "view"
         /\ SameView(res.view, objs[1][FieldOf(Resolve(res.T))]) )

\* C3 witness: make_poly_enc returned the UTF-16 view of a literal with a
\* surrogate pair while the object of cons_poly_enc is there to compare.
C3_Witness ==
    /\ Len(objs) >= 1
    /\ res.op = "make_poly_enc"
    /\ res.T = "char16_t"
    /\ res.kind = "view"
    /\ HasSurrogatePair
    /\ res.view.len > Len(lit)

\* C9: for every literal, the wide view of cons_poly_enc and of
\* make_poly_enc(wchar_t, lit), converted to UTF-8, is the narrow baseline,
\* with wchar_t 16 bits wide and with wchar_t 32 bits wide.
C9_WideMatchesNarrow ==
    ( /\ res.kind = "view"
      /\ Resolve(res.T) = "wchar_t"
      /\ conv # NoString
      /\ str_a # NoString )
    => (conv.ok /\ conv = str_a)

\* C9 witness: a 16-bit wide view holding a surrogate pair has been
\* converted and equals the baseline.
C9_Witness ==
    /\ wcharBits = 16
    /\ res.kind = "view"
    /\ res.T = "wchar_t"
    /\ HasSurrogatePair
    /\ res.view.len > Len(lit)
    /\ conv.ok
    /\ conv = str_a

\* C9 witness at 32 bits is the same state with one unit per code point.
C9_Witness32 ==
    /\ wcharBits = 32
    /\ res.kind = "view"
    /\ res.T = "wchar_t"
    /\ HasSurrogatePair
    /\ conv.ok
    /\ conv = str_a

-----------------------------------------------------------------------------
(* Properties of the object level (Spec).                                    *)

\* The last access was made with a type the build supports.
SupportedAccess == Resolve(res.T) \in Supported(std)

\* The position of the constructor parameter that takes the view of
\* element type T.
ParamIndex(level, T) ==
    CHOOSE k \in DOMAIN CtorParams(level) : CtorParams(level)[k] = T

\* The fields of an object hold pairwise different views.
DistinctFields(o) ==
    \A f, g \in DOMAIN o : f # g => o[f] # o[g]

\* C2: visit<T>() returns exactly the field declared for T (char8_t at
\* C++20 only); the selection is by type identity, so an alias selects the
\* field of the type it names and no other field is ever returned for T.
C2_VisitSelectsDeclaredField ==
    (res.op = "visit" /\ SupportedAccess)
    => ( /\ res.kind = "view"
         /\ res.branch = FieldOf(Resolve(res.T))
         /\ res.view = objs[res.obj][FieldOf(Resolve(res.T))]
         /\ \A f \in Fields(std) \ {FieldOf(Resolve(res.T))} :
               objs[res.obj][f] # objs[res.obj][FieldOf(Resolve(res.T))]
               => res.view # objs[res.obj][f] )

\* C2 witness: visit through the alias char42_t returned the char32_t field
\* of an object whose fields all differ.
C2_Witness ==
    /\ res.op = "visit"
    /\ res.T = "char42_t"
    /\ res.kind = "view"
    /\ res.branch = "TXT_CHAR_32"
    /\ res.view.len > 0
    /\ DistinctFields(objs[res.obj])

C5_UnsupportedGivesEmptyView ==
    ( /\ std < 20
      /\ res.op \in {"visit", "visit_poly_enc"}
      /\ TypeExists(std, res.T)
      /\ Resolve(res.T) \notin Supported(std) )
    => (res.kind = "view" /\ res.view.len = 0)

\* C6: a poly_enc is never mutated: after any visits, visit_poly_enc calls
\* and copies, every field of every object is what it was when the object
\* was built.
C6_NeverMutated ==
    /\ Len(ctorArgs) = Len(objs)
    /\ \A i \in DOMAIN objs : objs[i] = ctorArgs[i].built

\* C6 witness: an object that has been copied has just been visited.
C6_Witness ==
    /\ res.op \in {"visit", "visit_poly_enc"}
    /\ res.kind = "view"
    /\ res.view.len > 0
    /\ \E j \in DOMAIN ctorArgs : ctorArgs[j].copyOf = res.obj

\* Objects i and j agree on field f and differ in every other field.
AgreeOnlyOn(i, j, f) ==
    /\ objs[i][f] = objs[j][f]
    /\ \A g \in Fields(std) \ {f} : objs[i][g] # objs[j][g]

\* C7: selection performs no transcoding: the view visit<T>() returned
\* refers to storage of element type T, and visit<T>() returns that same
\* view on every object that agrees on the field for T, whatever its other
\* fields hold.
C7_SelectionDependsOnOwnField ==
    (res.op = "visit" /\ SupportedAccess /\ res.kind = "view")
    => ( /\ res.view.data # Null => res.view.data.enc = Resolve(res.T)
         /\ \A j \in DOMAIN objs :
               objs[j][FieldOf(Resolve(res.T))]
                   = objs[res.obj][FieldOf(Resolve(res.T))]
               => visit(std, objs[j], res.T).view = res.view )

\* C7 witness: the visited object has a partner that agrees on the field
\* of the type and differs in every other field, lengths included.
C7_Witness ==
    /\ res.op = "visit"
    /\ res.kind = "view"
    /\ res.T = "char16_t"
    /\ res.view.len > 0
    /\ \E j \in DOMAIN objs :
          /\ AgreeOnlyOn(res.obj, j, "TXT_CHAR_16")
          /\ objs[j].TXT_CHAR.len # objs[res.obj].TXT_CHAR.len

\* C8: views are non-owning: visit<T>() returns the data pointer and the
\* length of the view the constructor was given for T, and a copy of a
\* poly_enc refers to the same character data as its original in every
\* field.
C8_ViewsAreNonOwning ==
    /\ (res.op = "visit" /\ SupportedAccess)
       => res.view = ctorArgs[res.obj].args[ParamIndex(std, Resolve(res.T))]
    /\ \A j \in DOMAIN objs :
          ctorArgs[j].copyOf > 0
          => \A f \in Fields(std) :
                /\ objs[j][f].data = objs[ctorArgs[j].copyOf][f].data
                /\ objs[j][f].len = objs[ctorArgs[j].copyOf][f].len

\* C8 witness: visit on a copy returned a non-empty view.
C8_Witness ==
    /\ res.op = "visit"
    /\ res.kind = "view"
    /\ res.view.len > 0
    /\ ctorArgs[res.obj].copyOf > 0

\* Every view of the object is empty.
AllEmpty(o) == \A f \in DOMAIN o : o[f].len = 0

\* C10: the core has no runtime error path: constructing a poly_enc gives
\* an object, and visit<T>() and visit_poly_enc<T>() with a supported type
\* give a view, never an exception, also on an object whose views are all
\* empty.
C10_NoRuntimeError ==
    /\ res.op = "construct" => res.kind = "object"
    /\ (res.op \in {"visit", "visit_poly_enc"} /\ SupportedAccess)
       => res.kind = "view"

\* C10 witness: visit_poly_enc on an object whose views are all empty
\* returned a view.
C10_Witness ==
    /\ res.op = "visit_poly_enc"
    /\ res.kind = "view"
    /\ res.obj \in DOMAIN objs
    /\ AllEmpty(objs[res.obj])

-----------------------------------------------------------------------------
(* Properties of the traits and of the fallback view (SpecView).             *)

\* C11: is_char<T>::value, is_char_v<T> and CharType<T> are true exactly
\* when T is one of char, wchar_t, char8_t, char16_t, char32_t (under any
\* alias) and false for every other type, signed char, unsigned char and
\* the other integral types included; the three forms give one answer.
C11_TraitsAcceptExactlyTheFiveTypes ==
    (vres.op = "trait" /\ vres.kind = "done") =>
        /\ vres.value = (Resolve(vres.T) \in CharTypes)
        /\ vres.v = vres.value
        /\ vres.concept = vres.value

\* The traits asked about signed char answer false, all three.
C11_Witness ==
    /\ vres.op = "trait"
    /\ vres.kind = "done"
    /\ vres.T = "signed char"
    /\ ~ vres.value /\ ~ vres.v /\ ~ vres.concept

\* C12: operator[](pos) and at(pos) of a fallback view throw
\* std::out_of_range exactly when pos >= length() and otherwise return
\* the element at index pos of the viewed data; the two give the same
\* outcome for every pos, and on an empty view every index throws.
C12_IndexThrowsExactlyPastTheEnd ==
    vres.op = "index" =>
        /\ vres.sub.thrown = (vres.pos >= vres.a.len)
        /\ ~ vres.sub.thrown =>
              vres.sub.unit = Mem(vres.a.data)[vres.pos + 1]
        /\ vres.at = vres.sub
        /\ vres.a.len = 0 => (vres.sub.thrown /\ vres.at.thrown)

\* A view that is not empty is indexed at its length, one past its last
\* element, and both operations throw.
C12_Witness ==
    /\ vres.op = "index"
    /\ vres.a.len > 0
    /\ vres.pos = vres.a.len
    /\ vres.sub.thrown
    /\ vres.at.thrown

\* The characters a view covers, read from its array.
Chars(v) == [i \in 1 .. v.len |-> Mem(v.data)[i]]

\* C13: a == b is true exactly when a and b have the same length and
\* equal elements at every index below it, whatever their data pointers;
\* a != b is the negation of a == b; the comparison reads no index at or
\* past the length of either view.
C13_EqualityComparesContents ==
    vres.op = "compare" =>
        /\ vres.eq = (/\ vres.a.len = vres.b.len
                      /\ \A i \in 1 .. vres.a.len :
                            Mem(vres.a.data)[i] = Mem(vres.b.data)[i])
        /\ vres.ne = ~ vres.eq
        /\ \A i \in vres.reads : i < vres.a.len /\ i < vres.b.len

\* Two views of different arrays with the same characters, at least one,
\* compare equal.
C13_Witness ==
    /\ vres.op = "compare"
    /\ vres.a.data # vres.b.data
    /\ vres.a.len > 0
    /\ vres.eq
    /\ ~ vres.ne

\* C14: empty() is true exactly when length() is 0, and the conversion to
\* bool is true exactly when the view is not empty.
C14_EmptyIffLengthZero ==
    vres.op = "observe" =>
        /\ vres.length = vres.a.len
        /\ vres.empty = (vres.length = 0)
        /\ vres.bool = ~ vres.empty

\* An empty view over an array, not a default one, is observed.
C14_Witness ==
    /\ vres.op = "observe"
    /\ vres.a.data \in ArrayNames
    /\ vres.length = 0
    /\ vres.empty
    /\ ~ vres.bool

\* C15: a default-constructed fallback view is an empty view for every
\* character type: its length is 0, empty() is true, it equals any other
\* empty view, and every indexed access throws.
C15_DefaultViewIsEmpty ==
    vres.op = "default" =>
        /\ vres.kind = "done"
        /\ length(vres.view) = 0
        /\ empty(vres.view)
        /\ \A b \in ViewsOf(std) :
              b.len = 0 => operator_eq(vres.view, b).value
        /\ \A pos \in Positions :
              operator_index(vres.view, pos).thrown
              /\ at(vres.view, pos).thrown

\* The number of units before the first null unit of a terminated array.
FirstNull(arr) ==
    CHOOSE n \in 0 .. Len(arr) - 1 :
        arr[n + 1] = 0 /\ \A k \in 1 .. n : arr[k] # 0

\* C16: at C++14 the view built from a null-terminated string pStr has
\* data pStr and as length the number of characters before the first
\* null character (0 for an empty string); the view built from (pStr,
\* nLength) has data pStr and length nLength, wherever the nulls are.
C16_ConstructorsSetDataAndLength ==
    (vres.op = "construct" /\ std = 14) =>
        /\ vres.kind = "done"
        /\ data(vres.view) = vres.pStr
        /\ vres.ctor = "cstr" =>
              vres.view.len = FirstNull(Mem(vres.pStr))
        /\ vres.ctor = "ptr_len" => vres.view.len = vres.pos

\* A view is built from an array with a null character inside: it ends
\* at that null, before the end of the array.
C16_Witness ==
    /\ vres.op = "construct"
    /\ std = 14
    /\ vres.ctor = "cstr"
    /\ vres.view.len < Len(Mem(vres.pStr)) - 1
    /\ Mem(vres.pStr)[vres.view.len + 1] = 0

\* The same with the length given: the view runs over a null character.
C16_WitnessLength ==
    /\ vres.op = "construct"
    /\ std = 14
    /\ vres.ctor = "ptr_len"
    /\ vres.view.len > FirstNull(Mem(vres.pStr))

-----------------------------------------------------------------------------
(* Properties of the macros (SpecLit).                                       *)

\* The view v holds the literal l written with the prefix of element type
\* T at place `site`: it points to that literal object and covers its
\* units, all of them when the literal has no null character inside.
HoldsLiteral(v, T, l, site) ==
    /\ v.data = LiteralObject(T, l, site)
    /\ Contents(v) = SubSeq(Encode(T, LiteralText(l)), 1, v.len)
    /\ (\A k \in DOMAIN LiteralText(l) : LiteralText(l)[k] # 0)
          => v.len = Len(Encode(T, LiteralText(l)))

\* Object i was built by cons_poly_enc(l).
BuiltByMacro(i, l) ==
    /\ ctorArgs[i].copyOf = 0
    /\ ctorArgs[i].args = MacroArgs(l, i)

\* C18: at every language level the macros pass as many literals as the
\* poly_enc constructor has parameters, in the order of the parameters, so
\* that each field of the object holds the literal written with the
\* prefix of its own element type: TXT_CHAR lit, TXT_CHAR_W L lit,
\* TXT_CHAR_16 u lit, TXT_CHAR_32 U lit, and TXT_CHAR_8 u8 lit at C++20,
\* where the object has five fields; below C++20 it has four and none for
\* UTF-8.
C18_MacrosFillEachFieldWithItsLiteral ==
    /\ DOMAIN MacroLiterals(std) = DOMAIN CtorParams(std)
    /\ \A k \in DOMAIN CtorParams(std) :
          MacroLiterals(std)[k] = CtorParams(std)[k]
    /\ \A i \in DOMAIN objs : \A l \in Sources :
          BuiltByMacro(i, l) =>
              /\ DOMAIN objs[i] = Fields(std)
              /\ Cardinality(DOMAIN objs[i]) = Len(CtorParams(std))
              /\ ("TXT_CHAR_8" \in DOMAIN objs[i]) = (std >= 20)
              /\ \A f \in DOMAIN objs[i] :
                    HoldsLiteral(objs[i][f], FieldType(f), l, i)
    /\ (res.op = "make_poly_enc" /\ res.kind = "view") =>
          HoldsLiteral(res.view, Resolve(res.T), res.src, MakeSite)

\* Below C++20 an object built by cons_poly_enc of the literal has four
\* fields and its third one, TXT_CHAR_16, holds the u literal.
C18_Witness ==
    /\ std = 17
    /\ \E i \in DOMAIN objs :
          /\ BuiltByMacro(i, "lit")
          /\ Cardinality(DOMAIN objs[i]) = Len(MacroLiterals(std))
          /\ objs[i].TXT_CHAR_16.data.enc = "char16_t"
          /\ objs[i].TXT_CHAR_16.len > 0

\* The same at C++20, with five fields and the u8 literal in TXT_CHAR_8.
C18_WitnessUtf8 ==
    /\ std = 20
    /\ \E i \in DOMAIN objs :
          /\ BuiltByMacro(i, "lit")
          /\ objs[i].TXT_CHAR_8.data.enc = "char8_t"
          /\ objs[i].TXT_CHAR_16.data.enc = "char16_t"

=============================================================================
